---------------------------- MODULE Spec2Model ----------------------------
(***************************************************************************)
(* Model of the streaming transfer pipeline of goes (Go ElasticSearch      *)
(* dumper/importer/exporter): the Batcher, the producer loop of            *)
(* FileSource.StreamTo, the bounded channel, and the worker pool of        *)
(* EsConn.AcceptFrom with EsConn.Bulk and parseBulkFailures, against a     *)
(* destination with per-item bulk statuses.                                *)
(***************************************************************************)
EXTENDS Integers, Sequences, FiniteSets, TLC

(***************************************************************************)
(* Bounds of the model.                                                    *)
(***************************************************************************)
\* records in the longest source
MaxRecs == 2
\* largest value of the `parallel` argument of AcceptFrom
MaxParallel == 2
\* largest bulkSize handed to the Batcher
MaxSize == 2
\* capacity of the channel handed to StreamTo and AcceptFrom (Copy makes
\* one of capacity 10; the model scales it down)
ChanCap == 1
\* how many overload answers (429/503) the destination gives in one run
OverloadBudget == 1
\* how many bulk requests fail as a whole (transport error, HTTP >= 300)
HardBudget == 1
\* Put calls in a run of the Batcher on its own
MaxPuts == 4
\* Flush calls in a run of the Batcher on its own
MaxFlushes == 3
\* largest page size asked of a scroll
MaxWindow == 2
\* read failures injected into the source
ReadErrBudget == 1
\* largest shard count and replica count of an index or of an override
MaxShards == 2
MaxRepls == 1

(***************************************************************************)
(* Statuses of one item of a bulk response, as parseBulkFailures reads     *)
(* them.                                                                   *)
(***************************************************************************)
StatusCreated == 201
StatusConflict == 409
StatusTooMany == 429
StatusUnavailable == 503
OverloadStatuses == {StatusTooMany, StatusUnavailable}
\* any other status: a permanent rejection of the record
PermanentStatuses == {400}

(***************************************************************************)
(* Bulk: the transfer record.  The i-th record of the source has Doc i;    *)
(* records 1 and 2 share an Id and differ in Type, as do 3 and 4.          *)
(***************************************************************************)
Types == <<"a", "b">>

Rec(i) == [Id |-> (i + 1) \div 2, Type |-> Types[2 - (i % 2)], Doc |-> i]

Source(n) == [i \in 1..n |-> Rec(i)]

AllRecs == {Rec(i) : i \in 1..(MaxRecs + 1)}

\* the destination's document key: create semantics are per (Type, Id)
Key(b) == <<b.Type, b.Id>>

AllKeys == {Key(b) : b \in AllRecs}

NoDoc == [doc |-> 0, version |-> 0]

SeqSet(s) == {s[i] : i \in 1..Len(s)}

RECURSIVE Flatten(_)
Flatten(ss) == IF ss = <<>> THEN <<>> ELSE Head(ss) \o Flatten(Tail(ss))

(***************************************************************************)
(* Batcher (Put, Flush), as functions of the buffer.                       *)
(***************************************************************************)
\* Put: this.batch = append(this.batch, b)
BatcherAppend(buf, b) == Append(buf, b)

PutFlushesLate(buf, sz) == Len(buf) > sz

\* Put: if len(this.batch) == this.size { this.Flush() }
PutFlushes(buf, sz) == Len(buf) = sz

FlushSendsAlways(buf) == TRUE

\* Flush: if len(this.batch) != 0 { send }
FlushSends(buf) == Len(buf) # 0

FlushKeeps(buf) == buf

\* Flush: this.batch = []Bulk{}
FlushReset(buf) == <<>>

(***************************************************************************)
(* Bulk.Store: the two lines of one record in a bulk request body.  The    *)
(* header names the operation, the _id and the _type.                      *)
(***************************************************************************)
StoreOpIndex == "index"

\* const template = `{ "create" : { "_id" : "%v", "_type": "%v" } }` ...
StoreOp == "create"

Store(b) == [op |-> StoreOp, id |-> b.Id, type |-> b.Type, doc |-> b.Doc]

\* Bulk: for _, b := range ops { b.Store(&bodyBuf) }
BulkBody(ops) == [i \in 1..Len(ops) |-> Store(ops[i])]

(***************************************************************************)
(* The export file, byte by byte.  A text is a sequence of characters; the *)
(* fixed pieces of Store's template are one character each.  Id, Type and  *)
(* Doc of a record read from or written to a file are texts.               *)
(***************************************************************************)
NL == "\n"
QUOTE == "\""
PRE == "{ \"create\" : { \"_id\" : "
MID == ", \"_type\": "
POST == " } }"

\* fmt.Fprintf(wrt, template, bulk.Id, bulk.Type, bulk.Doc): %v and %s
\* copy their argument as it is, nothing is escaped
StoreText(b) ==
    <<PRE, QUOTE>> \o b.Id \o <<QUOTE, MID, QUOTE>> \o b.Type
        \o <<QUOTE, POST, NL>> \o b.Doc \o <<NL>>

\* the file FileSink.AcceptFrom writes for a sequence of records
StoreAll(recs) == Flatten([i \in 1..Len(recs) |-> StoreText(recs[i])])

\* the index of the first c in text s, 0 when there is none
IndexOf(s, c) ==
    LET I == {i \in 1..Len(s) : s[i] = c}
    IN  IF I = {} THEN 0 ELSE CHOOSE i \in I : \A j \in I : i <= j

\* bufio.Reader.ReadBytes('\n') on the unread bytes s: the bytes up to and
\* including the first newline; at the end of the input whatever is left,
\* with io.EOF
ReadBytes(s) ==
    LET i == IndexOf(s, NL)
    IN  IF i > 0
        THEN [line |-> SubSeq(s, 1, i), err |-> "nil",
              rest |-> SubSeq(s, i + 1, Len(s))]
        ELSE [line |-> s, err |-> "EOF", rest |-> <<>>]

\* json.Unmarshal(op, &bulkOp) on a header line: the _id and _type strings
\* of the create object.  A string ends at the first quote, so the line
\* parses only when what follows each string is what the syntax demands
\* (texts hold no backslash: escapes are not modelled)
UnmarshalOp(line) ==
    LET body == SelectSeq(line, LAMBDA c : c # NL)
        a    == SubSeq(body, 3, Len(body))
        q1   == IndexOf(a, QUOTE)
        b    == SubSeq(a, q1 + 3, Len(a))
        q2   == IndexOf(b, QUOTE)
        ok   == /\ Len(body) >= 2
                /\ body[1] = PRE
                /\ body[2] = QUOTE
                /\ q1 > 0
                /\ Len(a) >= q1 + 2
                /\ a[q1 + 1] = MID
                /\ a[q1 + 2] = QUOTE
                /\ q2 > 0
                /\ Len(b) = q2 + 1
                /\ b[q2 + 1] = POST
    IN  IF ok
        THEN [ok |-> TRUE, Id |-> SubSeq(a, 1, q1 - 1),
              Type |-> SubSeq(b, 1, q2 - 1)]
        ELSE [ok |-> FALSE, Id |-> <<>>, Type |-> <<>>]

\* Bulk{}
ZeroBulk == [Id |-> <<>>, Type |-> <<>>, Doc |-> <<>>]

\* ParseBulk(src) on the unread bytes s: the record, the error and the
\* bytes left unread
ParseBulk(s) ==
    LET op == ReadBytes(s)
        u  == UnmarshalOp(op.line)
        item == ReadBytes(op.rest)
    IN  IF op.err # "nil"
        THEN [bulk |-> ZeroBulk, err |-> op.err, rest |-> op.rest]
        ELSE IF ~u.ok
        THEN [bulk |-> ZeroBulk, err |-> "syntax", rest |-> op.rest]
        ELSE [bulk |-> [Id |-> u.Id, Type |-> u.Type, Doc |-> item.line],
              err |-> item.err, rest |-> item.rest]

(***************************************************************************)
(* The destination's bulk endpoint.  d maps each (Type, Id) to the stored  *)
(* document and its version (0: absent).  ov are the positions of the      *)
(* request answered with the overload status code; rejected are the keys   *)
(* the destination rejects permanently.                                    *)
(***************************************************************************)
DestStatus(d, item, overloaded, code, rejected) ==
    IF overloaded THEN code
    ELSE IF d[<<item.type, item.id>>].version > 0
         THEN (IF item.op = "create" THEN StatusConflict ELSE 200)
    ELSE IF <<item.type, item.id>> \in rejected
         THEN CHOOSE s \in PermanentStatuses : TRUE
    ELSE StatusCreated

DestWrite(d, item, status) ==
    IF status \in {StatusCreated, 200}
    THEN [d EXCEPT ![<<item.type, item.id>>] =
             [doc |-> item.doc, version |-> @.version + 1]]
    ELSE d

RECURSIVE DestBulk(_, _, _, _, _, _)
DestBulk(d, body, i, ov, code, rejected) ==
    IF i > Len(body) THEN [docs |-> d, items |-> <<>>]
    ELSE LET st   == DestStatus(d, body[i], i \in ov, code, rejected)
             rest == DestBulk(DestWrite(d, body[i], st), body, i + 1,
                              ov, code, rejected)
         IN  [docs  |-> rest.docs,
              items |-> <<[id |-> body[i].id, status |-> st]>> \o rest.items]

\* the response body: "errors" is set when some item did not succeed
DestResponse(items) ==
    [errors |-> \E i \in 1..Len(items) :
                   items[i].status \notin {StatusCreated, 200},
     items  |-> items]

(***************************************************************************)
(* parseBulkFailures: the set of _id whose item failed with an overload    *)
(* status.  A conflict is ignored, any other status is logged.             *)
(***************************************************************************)
RetriableOnlyTooMany(status) == status = StatusTooMany

RetriableWithConflict(status) ==
    status = StatusTooMany \/ status = StatusUnavailable
        \/ status = StatusConflict

\* if item.Create.Status == 429 || item.Create.Status == 503
Retriable(status) == status = StatusTooMany \/ status = StatusUnavailable

parseBulkFailures(resp) ==
    IF resp.errors
    THEN {resp.items[i].id : i \in {j \in 1..Len(resp.items) :
              resp.items[j].status # StatusCreated
                  /\ Retriable(resp.items[j].status)}}
    ELSE {}

(***************************************************************************)
(* EsConn.Bulk after the response is parsed: the operations whose Id is    *)
(* in fails, in the order of ops (nil when fails is empty).                *)
(***************************************************************************)
BulkRetNone(ops, fails) == <<>>

BulkRet(ops, fails) ==
    IF Cardinality(fails) > 0
    THEN SelectSeq(ops, LAMBDA op : op.Id \in fails)
    ELSE <<>>

(***************************************************************************)
(* Index metadata.  A JSON object is a function from its field names; the  *)
(* metadata blob is an object keyed by index name.  json.Unmarshal into a  *)
(* Go struct keeps the fields the struct declares, and json.Marshal writes *)
(* every declared field, a nil `Any` as null.                              *)
(***************************************************************************)
Null == "<null>"

\* the fields of IndexSettings.Index, by their json tags
IndexSettingsFields ==
    {"cache", "number_of_shards", "number_of_replicas", "refresh_interval",
     "similarity", "analysis", "translog", "uuid", "version"}

\* the fields declared `string`; the others are `Any`
StringFields == {"number_of_shards", "number_of_replicas"}

\* the zero value json.Marshal writes for a field that was never set
ZeroOf(f) == IF f \in StringFields THEN "" ELSE Null

\* json.Unmarshal of a settings.index object into IndexSettings.Index
UnmarshalSettings(obj) ==
    [f \in IndexSettingsFields |->
        IF f \in DOMAIN obj /\ obj[f] # Null THEN obj[f] ELSE ZeroOf(f)]

\* json.Marshal of IndexSettings.Index
MarshalSettings(st) == [f \in DOMAIN st |-> st[f]]

\* json.Unmarshal of one index document into Index
UnmarshalIndex(doc) ==
    [Aliases  |-> doc.aliases,
     Mappings |-> doc.mappings,
     Settings |-> UnmarshalSettings(doc.settings),
     Warmers  |-> doc.warmers]

\* json.Marshal of Index
MarshalIndex(ix) ==
    [aliases  |-> ix.Aliases,
     mappings |-> ix.Mappings,
     settings |-> MarshalSettings(ix.Settings),
     warmers  |-> ix.Warmers]

\* strconv.Itoa
Digit(d) == <<"0", "1", "2", "3", "4", "5", "6", "7", "8", "9">>[d + 1]

RECURSIVE Digits(_)
Digits(n) == IF n < 10 THEN Digit(n) ELSE Digits(n \div 10) \o Digit(n % 10)

Itoa(n) == IF n < 0 THEN "-" \o Digits(-n) ELSE Digits(n)

\* the zero value of Index: what a Go map lookup returns for a name the
\* map does not hold
ZeroIndex ==
    [Aliases  |-> {},
     Mappings |-> <<>>,
     Settings |-> [f \in IndexSettingsFields |-> ZeroOf(f)],
     Warmers  |-> {}]

\* `name := ""; for k := range meta { name = k }`: the names the loop can
\* end with.  A Go map is ranged over in no fixed order, so any key may be
\* the last one; the loop body never runs on an empty map
RangeLast(meta) == IF DOMAIN meta = {} THEN {""} ELSE DOMAIN meta

\* meta[name] on the unmarshalled metadata
Lookup(meta, name) ==
    IF name \in DOMAIN meta THEN UnmarshalIndex(meta[name]) ELSE ZeroIndex

\* EsConn.GetIndex: the value stored back under the index name before the
\* blob is marshalled
GetIndexVal(served, name) == [Lookup(served, name) EXCEPT !.Aliases = {}]

\* the string EsConn.GetIndex returns: every key of the answer, and the
\* chosen name with its aliases cleared
GetIndexBlob(served, name) ==
    [k \in DOMAIN served \cup {name} |->
        MarshalIndex(IF k = name THEN GetIndexVal(served, name)
                     ELSE UnmarshalIndex(served[k]))]

\* the conditions guarding the two overrides of EsConn.PutIndex
OverridesRepls(rp, sh) == rp >= 0

OverridesShards(rp, sh) == rp >= 0

\* EsConn.PutIndex: the request body built from the value found under
\* the old index name
PutIndexBody(ix, rp, sh) ==
    LET metaVal == [ix EXCEPT !.Aliases = {}]
        s1 == IF OverridesRepls(rp, sh)
              THEN [metaVal.Settings EXCEPT
                       !["number_of_replicas"] = Itoa(rp)]
              ELSE metaVal.Settings
        s2 == IF OverridesShards(rp, sh)
              THEN [s1 EXCEPT !["number_of_shards"] = Itoa(sh)]
              ELSE s1
    IN  MarshalIndex([metaVal EXCEPT !.Settings = s2])

\* the collections of an index document: the keys of its mappings, in any
\* order (a Go map is ranged over in no fixed order)
Perms(S) ==
    {p \in [1..Cardinality(S) -> S] :
        \A i, j \in 1..Cardinality(S) : i # j => p[i] # p[j]}

TypesOf(ix) == Perms(DOMAIN ix.Mappings)

(***************************************************************************)
(* State.                                                                  *)
(***************************************************************************)
VARIABLES
    input,      \* the records of the source file, in file order
    pos,        \* FileSource.StreamTo: index of the next record to parse
    ppc,        \* FileSource.StreamTo: "loop", "close", "done"; "unit" when
                \* the Batcher is driven on its own; EsConn.StreamTo:
                \* "range", "next", "put", "flush", "esclose", "unwind"
                \* (a panic is running the deferred calls), "done"
    size,       \* Batcher.size
    batch,      \* Batcher.batch
    sending,    \* the Batcher call blocked in `this.dest <- this.batch`:
                \* "none", "Put" or "Flush"
    pipe,       \* the batches buffered in the channel
    closed,     \* close(dest) has run
    parallel,   \* AcceptFrom's worker count
    apc,        \* AcceptFrom: "wait" (in group.Wait) or "returned"
    err,        \* AcceptFrom's named result, written by every worker
    wpc,        \* per worker: "idle", "recv", "bulk", "check1", "drain",
                \* "check2", "done"
    wbatch,     \* per worker: the batch received and not yet submitted
    leftover,   \* per worker: its leftover
    panicked,   \* a goroutine panicked: the process is gone
    docs,       \* the destination's documents, by (Type, Id)
    rejected,   \* keys the destination rejects permanently
    overloads,  \* overload answers the destination may still give
    hards,      \* whole-request failures that may still happen
    hist,       \* per record: the outcome of each of its submissions, a
                \* status, or 0 when the request failed as a whole
    failed,     \* per worker: one of its Bulk calls returned an error
    putLog,     \* the records passed to Put, in call order
    sentLog,    \* the batches sent on the channel, each with the call
                \* that sent it
    nflush,     \* Flush calls made, by the Batcher driven on its own or by
                \* EsConn.readBulk
    types,      \* EsConn.types: the collections, in the order GetIndex
                \* met them
    tix,        \* EsConn.StreamTo: index in types of the current collection
    window,     \* the page size asked of the scroll
    cursor,     \* Scroll: records of the current collection already served
    hits,       \* readBulk: hits of the current page not yet Put
    readErrs,   \* read failures the source may still have
    nextErrs,   \* the Scroll.Next calls that returned an error, each as
                \* <<collection, documents it had served before>>
    closes,     \* close(dest) calls made
    sink,       \* FileSink: the records stored in the file, in order
    cpc,        \* Copy: "get", "delete", "put", "start", "accept", "done";
                \* "off" when the streaming phase is studied on its own
    calls,      \* the DataSource and DataSink calls Copy has made
    force,      \* Params.force
    cerr,       \* Copy's result: "none" until it returns
    smeta,      \* the index document the source serves to GetIndex
    index,      \* Copy's `index`: the string GetIndex returned
    dmeta,      \* the document PutIndex sent to the destination
    repls,      \* Params.repls
    shards,     \* Params.shards
    stuck,      \* keys the destination answers with overload every time
    file,       \* the bytes of the source file after its metadata line
    rest,       \* the bytes of the file the reader has not read yet
    reads       \* the calls made on scrolls, in order: the collection, the
                \* call ("open" or "next") and the number of hits it
                \* returned, -1 for an error

vars == <<input, pos, ppc, size, batch, sending, pipe, closed, parallel, apc,
          err, wpc, wbatch, leftover, panicked, docs, rejected, overloads,
          hards, hist, failed, putLog, sentLog, nflush, types, tix, window,
          cursor, hits, readErrs, nextErrs, closes, sink, cpc, calls,
          force, cerr, smeta, index, dmeta, repls, shards, stuck, file, rest,
          reads>>

esVars == <<types, tix, window, cursor, hits, readErrs, nextErrs>>
copyVars == <<cpc, calls, force, cerr>>
metaVars == <<smeta, index, dmeta, repls, shards>>
extVars == <<esVars, copyVars, metaVars, closes, sink, stuck, file, rest,
             reads>>

batcherVars == <<size, batch, sending, putLog, sentLog>>
producerVars == <<input, pos, ppc>>
workerVars == <<parallel, apc, err, wpc, wbatch, leftover, failed>>
destVars == <<docs, rejected, overloads, hards, hist>>

Workers == 1..MaxParallel

\* the documents a previous run of the same transfer left behind
DocsOf(keys) ==
    [k \in AllKeys |->
        IF k \in keys
        THEN [doc |-> (CHOOSE b \in AllRecs : Key(b) = k).Doc, version |-> 1]
        ELSE NoDoc]

InitCommon ==
    /\ batch = <<>>
    /\ sending = "none"
    /\ pipe = <<>>
    /\ closed = FALSE
    /\ closes = 0
    /\ sink = <<>>
    /\ err = "nil"
    /\ wbatch = [w \in Workers |-> <<>>]
    /\ leftover = [w \in Workers |-> <<>>]
    /\ panicked = FALSE
    /\ hist = [r \in AllRecs |-> <<>>]
    /\ failed = [w \in Workers |-> FALSE]
    /\ putLog = <<>>
    /\ sentLog = <<>>
    /\ nflush = 0
    /\ reads = <<>>

\* the failures the destination may answer with
DestBudgets ==
    /\ overloads = OverloadBudget
    /\ hards = HardBudget

\* the parts of the program a specification leaves out
FileOff ==
    /\ file = <<>>
    /\ rest = <<>>

EsOff ==
    /\ types = <<>>
    /\ tix = 0
    /\ window = 0
    /\ cursor = 0
    /\ hits = <<>>
    /\ readErrs = 0
    /\ nextErrs = {}

NoIndex == [aliases |-> {}, mappings |-> <<>>, settings |-> <<>>,
            warmers |-> {}]

MetaOff ==
    /\ smeta = <<>>
    /\ index = <<>>
    /\ dmeta = NoIndex
    /\ repls = -1
    /\ shards = -1

CopyOff ==
    /\ cpc = "off"
    /\ calls = <<>>
    /\ force = FALSE
    /\ cerr = "none"

\* Copy's streaming phase: StreamTo started on a file of up to MaxRecs
\* records, AcceptFrom started with `parallel` workers.  The destination
\* may reject the second record permanently, or hold it already (a
\* restarted transfer).
Init ==
    /\ InitCommon
    /\ DestBudgets
    /\ EsOff /\ MetaOff /\ CopyOff
    /\ stuck = {}
    /\ FileOff
    /\ apc = "wait"
    /\ input \in {Source(n) : n \in 0..MaxRecs}
    /\ pos = 1
    /\ ppc = "loop"
    /\ size \in 1..MaxSize
    /\ parallel \in 0..MaxParallel
    /\ wpc = [w \in Workers |-> IF w <= parallel THEN "recv" ELSE "idle"]
    /\ rejected \in SUBSET {Key(Rec(2))}
    /\ \E pre \in SUBSET ({Key(Rec(2))} \ rejected) : docs = DocsOf(pre)

(***************************************************************************)
(* Batcher.Put and Batcher.Flush.  A call that sends blocks in             *)
(* `this.dest <- this.batch` until the channel has room; ChanSend is the   *)
(* send going through, followed by the reset of the buffer.                *)
(***************************************************************************)
Put(b) ==
    /\ sending = "none"
    /\ LET nb == BatcherAppend(batch, b)
       IN  /\ batch' = nb
           /\ sending' = IF PutFlushes(nb, size) /\ FlushSends(nb)
                         THEN "Put" ELSE "none"
    /\ putLog' = Append(putLog, b)
    /\ UNCHANGED <<size, sentLog>>

Flush ==
    /\ sending = "none"
    /\ sending' = IF FlushSends(batch) THEN "Flush" ELSE "none"
    /\ UNCHANGED <<size, batch, putLog, sentLog>>

\* a channel that takes a send whatever it holds
ChanUnbounded(p) == TRUE

\* a send goes through when the channel holds fewer batches than the
\* capacity it was made with
ChanHasRoom(p) == Len(p) < ChanCap

ChanSend ==
    /\ ~panicked
    /\ sending # "none"
    /\ ChanHasRoom(pipe)
    /\ pipe' = Append(pipe, batch)
    /\ sentLog' = Append(sentLog, [batch |-> batch, by |-> sending])
    /\ batch' = FlushReset(batch)
    /\ sending' = "none"
    /\ UNCHANGED <<size, putLog, closed, panicked, nflush>>
    /\ UNCHANGED <<producerVars, workerVars, destVars>>
    /\ UNCHANGED extVars

(***************************************************************************)
(* FileSource.StreamTo: Put every record of the file, then the deferred    *)
(* Flush, then the deferred close(dest).                                   *)
(***************************************************************************)
SrcPut ==
    /\ ~panicked
    /\ ppc = "loop"
    /\ pos <= Len(input)
    /\ Put(input[pos])
    /\ pos' = pos + 1
    /\ UNCHANGED <<input, ppc, pipe, closed, panicked, nflush>>
    /\ UNCHANGED <<workerVars, destVars>>
    /\ UNCHANGED extVars

\* a StreamTo whose close(dest) was deferred after the Flush, and so
\* runs before it
SrcEOFClosesFirst ==
    /\ ~panicked
    /\ ppc = "loop"
    /\ pos > Len(input)
    /\ closed' = TRUE
    /\ closes' = closes + 1
    /\ Flush
    /\ ppc' = "close"
    /\ UNCHANGED <<input, pos, pipe, panicked, nflush>>
    /\ UNCHANGED <<workerVars, destVars>>
    /\ UNCHANGED <<esVars, copyVars, metaVars, sink, stuck, file, rest, reads>>

SrcEOF ==
    /\ ~panicked
    /\ ppc = "loop"
    /\ pos > Len(input)
    /\ Flush
    /\ ppc' = "close"
    /\ UNCHANGED <<input, pos, pipe, closed, panicked, nflush>>
    /\ UNCHANGED <<workerVars, destVars>>
    /\ UNCHANGED extVars

SrcClose ==
    /\ ~panicked
    /\ ppc = "close"
    /\ sending = "none"
    /\ closed' = TRUE
    /\ closes' = closes + 1
    /\ ppc' = "done"
    /\ UNCHANGED <<input, pos, pipe, panicked, nflush>>
    /\ UNCHANGED <<batcherVars, workerVars, destVars>>
    /\ UNCHANGED <<esVars, copyVars, metaVars, sink, stuck, file, rest, reads>>

(***************************************************************************)
(* FileSource.StreamTo on the bytes of the file: the same loop, with       *)
(* ParseBulk reading the two lines of each record.                         *)
(***************************************************************************)
\* bulk, err := ParseBulk(this.reader) with err == nil; batcher.Put(bulk)
FsPut ==
    /\ ~panicked
    /\ ppc = "parse"
    /\ LET r == ParseBulk(rest)
       IN  /\ r.err = "nil"
           /\ rest' = r.rest
           /\ Put(r.bulk)
    /\ UNCHANGED <<input, pos, ppc, pipe, closed, panicked, nflush>>
    /\ UNCHANGED <<workerVars, destVars>>
    /\ UNCHANGED <<esVars, copyVars, metaVars, closes, sink, stuck, file,
                   reads>>

\* err == io.EOF: break, whatever ParseBulk returned with it; the deferred
\* batcher.Flush()
FsEOF ==
    /\ ~panicked
    /\ ppc = "parse"
    /\ LET r == ParseBulk(rest)
       IN  /\ r.err = "EOF"
           /\ rest' = r.rest
    /\ Flush
    /\ ppc' = "close"
    /\ UNCHANGED <<input, pos, pipe, closed, panicked, nflush>>
    /\ UNCHANGED <<workerVars, destVars>>
    /\ UNCHANGED <<esVars, copyVars, metaVars, closes, sink, stuck, file,
                   reads>>

\* any other error: panic(err); the deferred batcher.Flush() runs first
FsPanic ==
    /\ ~panicked
    /\ ppc = "parse"
    /\ LET r == ParseBulk(rest)
       IN  /\ r.err = "syntax"
           /\ rest' = r.rest
    /\ Flush
    /\ ppc' = "fsunwind"
    /\ UNCHANGED <<input, pos, pipe, closed, panicked, nflush>>
    /\ UNCHANGED <<workerVars, destVars>>
    /\ UNCHANGED <<esVars, copyVars, metaVars, closes, sink, stuck, file,
                   reads>>

\* the panic runs the deferred this.src.Close() and close(dest), and the
\* process dies
FsUnwind ==
    /\ ~panicked
    /\ ppc = "fsunwind"
    /\ sending = "none"
    /\ closed' = TRUE
    /\ closes' = closes + 1
    /\ panicked' = TRUE
    /\ ppc' = "done"
    /\ UNCHANGED <<input, pos, pipe, nflush>>
    /\ UNCHANGED <<batcherVars, workerVars, destVars>>
    /\ UNCHANGED <<esVars, copyVars, metaVars, sink, stuck, file, rest,
                   reads>>

(***************************************************************************)
(* EsConn.StreamTo and EsConn.readBulk: for each collection of this.types, *)
(* open a scroll, make a Batcher, Put every hit of every page, then the    *)
(* deferred Flush of that Batcher; after the last collection the deferred  *)
(* close(dest).                                                            *)
(***************************************************************************)
\* a range that visits the list from its end
CollAtBackwards(ts, i) == ts[Len(ts) + 1 - i]

\* for _, name := range this.types: the collection of the i-th iteration
CollAt(ts, i) == ts[i]

\* one call on a scroll, as `reads` records it
ScrollCall(t, op, n) == [coll |-> t, op |-> op, n |-> n]

\* the documents of collection t, in the order the scroll serves them
Coll(t) == SelectSeq(input, LAMBDA r : r.Type = t)

Min(a, b) == IF a < b THEN a ELSE b

\* the page a healthy Scroll.Next returns: the next `window` documents, an
\* empty page when none is left
Page(t) == SubSeq(Coll(t), cursor + 1, Min(cursor + window, Len(Coll(t))))

\* the loop condition of readBulk: len(hits) != 0 && err == nil
ReadsOn(page, failure) == Len(page) # 0 /\ ~failure

\* a readBulk that goes on to read when NewScroll returned an error
AfterNewScrollIgnoresError(openErr) == "next"

\* if err != nil { panic(err) } after NewScroll: where readBulk goes
AfterNewScroll(openErr) == IF openErr THEN "unwind" ELSE "next"

\* readBulk's first statement, NewScroll; on an error panic(err), which
\* unwinds to StreamTo's deferred close
EsNewScroll ==
    /\ ~panicked
    /\ ppc = "range"
    /\ sending = "none"
    /\ tix < Len(types)
    /\ tix' = tix + 1
    /\ cursor' = 0
    /\ \/ /\ batch' = <<>>
          /\ ppc' = AfterNewScroll(FALSE)
          /\ reads' = Append(reads,
                             ScrollCall(CollAt(types, tix + 1), "open", 0))
          /\ UNCHANGED readErrs
       \/ /\ readErrs > 0
          /\ readErrs' = readErrs - 1
          /\ ppc' = AfterNewScroll(TRUE)
          /\ reads' = Append(reads,
                             ScrollCall(CollAt(types, tix + 1), "open", -1))
          /\ UNCHANGED batch
    /\ UNCHANGED <<input, pos, size, sending, putLog, sentLog, pipe, closed,
                   panicked, nflush, types, window, hits, nextErrs>>
    /\ UNCHANGED <<workerVars, destVars, copyVars, metaVars>>
    /\ UNCHANGED <<closes, sink, stuck, file, rest>>

\* hits, err := scroll.Next() and the test of the loop condition
EsNext ==
    /\ ~panicked
    /\ ppc = "next"
    /\ \/ LET page == Page(CollAt(types, tix))
          IN  /\ hits' = page
              /\ cursor' = cursor + Len(page)
              /\ ppc' = IF ReadsOn(page, FALSE) THEN "put" ELSE "flush"
              /\ reads' = Append(reads,
                                 ScrollCall(CollAt(types, tix), "next",
                                            Len(page)))
              /\ UNCHANGED <<readErrs, nextErrs>>
       \/ /\ readErrs > 0
          /\ readErrs' = readErrs - 1
          /\ nextErrs' = nextErrs \cup {<<CollAt(types, tix), cursor>>}
          /\ hits' = <<>>
          /\ ppc' = IF ReadsOn(<<>>, TRUE) THEN "put" ELSE "flush"
          /\ reads' = Append(reads,
                             ScrollCall(CollAt(types, tix), "next", -1))
          /\ UNCHANGED cursor
    /\ UNCHANGED <<input, pos, pipe, closed, panicked, nflush, types, tix,
                   window>>
    /\ UNCHANGED <<batcherVars, workerVars, destVars, copyVars, metaVars>>
    /\ UNCHANGED <<closes, sink, stuck, file, rest>>

\* batcher.Put(Bulk{Id: h["_id"], Type: typeName, Doc: ...}) for the next
\* hit of the page
EsPut ==
    /\ ~panicked
    /\ ppc = "put"
    /\ Put([Id |-> Head(hits).Id, Type |-> CollAt(types, tix),
            Doc |-> Head(hits).Doc])
    /\ hits' = Tail(hits)
    /\ ppc' = IF Tail(hits) = <<>> THEN "next" ELSE "put"
    /\ UNCHANGED <<input, pos, pipe, closed, panicked, nflush, types, tix,
                   window, cursor, readErrs, nextErrs>>
    /\ UNCHANGED <<workerVars, destVars, copyVars, metaVars>>
    /\ UNCHANGED <<closes, sink, stuck, file, rest, reads>>

\* a readBulk that returns without flushing its Batcher
EsFlushSkipped ==
    /\ ~panicked
    /\ ppc = "flush"
    /\ ppc' = "range"
    /\ UNCHANGED <<input, pos, pipe, closed, panicked, nflush>>
    /\ UNCHANGED <<batcherVars, esVars, workerVars, destVars, copyVars,
                   metaVars>>
    /\ UNCHANGED <<closes, sink, stuck, file, rest, reads>>

\* readBulk returns: the deferred batcher.Flush()
EsFlush ==
    /\ ~panicked
    /\ ppc = "flush"
    /\ Flush
    /\ nflush' = nflush + 1
    /\ ppc' = "range"
    /\ UNCHANGED <<input, pos, pipe, closed, panicked>>
    /\ UNCHANGED <<esVars, workerVars, destVars, copyVars, metaVars>>
    /\ UNCHANGED <<closes, sink, stuck, file, rest, reads>>

\* the range over this.types is over
EsRangeEnd ==
    /\ ~panicked
    /\ ppc = "range"
    /\ sending = "none"
    /\ tix = Len(types)
    /\ ppc' = "esclose"
    /\ UNCHANGED <<input, pos, pipe, closed, panicked, nflush>>
    /\ UNCHANGED <<batcherVars, esVars, workerVars, destVars, copyVars,
                   metaVars>>
    /\ UNCHANGED <<closes, sink, stuck, file, rest, reads>>

\* StreamTo's deferred close(dest); when a panic is unwinding the process
\* dies after it
EsClose ==
    /\ ~panicked
    /\ ppc \in {"esclose", "unwind"}
    /\ closed' = TRUE
    /\ closes' = closes + 1
    /\ panicked' = (ppc = "unwind")
    /\ ppc' = "done"
    /\ UNCHANGED <<input, pos, pipe, nflush>>
    /\ UNCHANGED <<batcherVars, esVars, workerVars, destVars, copyVars,
                   metaVars>>
    /\ UNCHANGED <<sink, stuck, file, rest, reads>>

(***************************************************************************)
(* FileSink.AcceptFrom: one loop over the channel, storing every record of *)
(* every batch in the file.                                                *)
(***************************************************************************)
FileRecv ==
    /\ ~panicked
    /\ apc = "range"
    /\ pipe # <<>>
    /\ sink' = sink \o Head(pipe)
    /\ pipe' = Tail(pipe)
    /\ UNCHANGED <<closed, panicked, nflush, closes, stuck, file, rest, reads>>
    /\ UNCHANGED <<producerVars, batcherVars, workerVars, destVars, esVars,
                   copyVars, metaVars>>

FileAcceptReturn ==
    /\ ~panicked
    /\ apc = "range"
    /\ pipe = <<>>
    /\ closed
    /\ apc' = "returned"
    /\ UNCHANGED <<parallel, err, wpc, wbatch, leftover, failed>>
    /\ UNCHANGED <<pipe, closed, panicked, nflush, closes, sink, stuck, file,
                   rest, reads>>
    /\ UNCHANGED <<producerVars, batcherVars, destVars, esVars, copyVars,
                   metaVars>>

(***************************************************************************)
(* EsConn.Bulk called by worker w on ops, and the assignment               *)
(* `leftover, err = this.Bulk(...)`: leftover is the worker's own, err is  *)
(* the one named result of AcceptFrom that all workers write.              *)
(***************************************************************************)
StatusOf(ops, items, r) ==
    items[CHOOSE i \in 1..Len(ops) : ops[i] = r].status

\* hist keeps the latest MaxHist outcomes of a record; a transfer whose
\* overloads are within OverloadBudget never submits a record that often
MaxHist == OverloadBudget + 2

HistAppend(h, status) ==
    IF Len(h) < MaxHist THEN Append(h, status) ELSE Append(Tail(h), status)

\* the positions of ops the destination overloads every time
StuckIn(ops) == {i \in 1..Len(ops) : Key(ops[i]) \in stuck}

Bulk(w, ops) ==
    \/ /\ hards > 0
       /\ hards' = hards - 1
       /\ leftover' = [leftover EXCEPT ![w] = <<>>]
       /\ err' = "error"
       /\ failed' = [failed EXCEPT ![w] = TRUE]
       /\ hist' = [r \in AllRecs |->
                      IF r \in SeqSet(ops) THEN HistAppend(hist[r], 0)
                      ELSE hist[r]]
       /\ UNCHANGED <<docs, overloads>>
    \/ \E ov \in SUBSET (1..Len(ops)) : \E code \in OverloadStatuses :
       /\ StuckIn(ops) \subseteq ov
       /\ Cardinality(ov \ StuckIn(ops)) <= overloads
       /\ (ov = {} => code = StatusTooMany)
       /\ LET out   == DestBulk(docs, BulkBody(ops), 1, ov, code, rejected)
              fails == parseBulkFailures(DestResponse(out.items))
          IN  /\ docs' = out.docs
              /\ leftover' = [leftover EXCEPT ![w] = BulkRet(ops, fails)]
              /\ hist' = [r \in AllRecs |->
                             IF r \in SeqSet(ops)
                             THEN HistAppend(hist[r],
                                             StatusOf(ops, out.items, r))
                             ELSE hist[r]]
       /\ overloads' = overloads - Cardinality(ov \ StuckIn(ops))
       /\ err' = "nil"
       /\ UNCHANGED <<hards, failed>>

(***************************************************************************)
(* One worker goroutine of EsConn.AcceptFrom.                              *)
(***************************************************************************)
\* a receive that leaves the batch in the channel for the next receiver
WRecvKeepsBatch(w) ==
    /\ ~panicked
    /\ wpc[w] = "recv"
    /\ pipe # <<>>
    /\ wbatch' = [wbatch EXCEPT ![w] = Head(pipe)]
    /\ wpc' = [wpc EXCEPT ![w] = "bulk"]
    /\ UNCHANGED <<parallel, apc, err, leftover, failed, pipe, closed,
                   panicked, nflush>>
    /\ UNCHANGED <<producerVars, batcherVars, destVars>>
    /\ UNCHANGED extVars

\* for batch := range src
WRecv(w) ==
    /\ ~panicked
    /\ wpc[w] = "recv"
    /\ \/ /\ pipe # <<>>
          /\ wbatch' = [wbatch EXCEPT ![w] = Head(pipe)]
          /\ pipe' = Tail(pipe)
          /\ wpc' = [wpc EXCEPT ![w] = "bulk"]
       \/ /\ pipe = <<>>
          /\ closed
          /\ wpc' = [wpc EXCEPT ![w] = "drain"]
          /\ UNCHANGED <<wbatch, pipe>>
    /\ UNCHANGED <<parallel, apc, err, leftover, failed, closed, panicked,
                   nflush>>
    /\ UNCHANGED <<producerVars, batcherVars, destVars>>
    /\ UNCHANGED extVars

\* batch = append(batch, leftover...); leftover, err = this.Bulk(batch)
WBulk(w) ==
    /\ ~panicked
    /\ wpc[w] = "bulk"
    /\ Bulk(w, wbatch[w] \o leftover[w])
    /\ wbatch' = [wbatch EXCEPT ![w] = <<>>]
    /\ wpc' = [wpc EXCEPT ![w] = "check1"]
    /\ UNCHANGED <<parallel, apc, pipe, closed, panicked, rejected, nflush>>
    /\ UNCHANGED <<producerVars, batcherVars>>
    /\ UNCHANGED extVars

\* for len(leftover) > 0 { leftover, err = this.Bulk(leftover) ... }
WDrain(w) ==
    /\ ~panicked
    /\ wpc[w] = "drain"
    /\ Len(leftover[w]) > 0
    /\ Bulk(w, leftover[w])
    /\ wpc' = [wpc EXCEPT ![w] = "check2"]
    /\ UNCHANGED <<parallel, apc, wbatch, pipe, closed, panicked, rejected,
                   nflush>>
    /\ UNCHANGED <<producerVars, batcherVars>>
    /\ UNCHANGED extVars

\* if err != nil { panic(err) }, in either loop
WCheck(w) ==
    /\ ~panicked
    /\ wpc[w] \in {"check1", "check2"}
    /\ IF err # "nil"
       THEN panicked' = TRUE /\ UNCHANGED wpc
       ELSE /\ wpc' = [wpc EXCEPT ![w] =
                          IF wpc[w] = "check1" THEN "recv" ELSE "drain"]
            /\ UNCHANGED panicked
    /\ UNCHANGED <<parallel, apc, err, wbatch, leftover, failed, pipe, closed,
                   nflush>>
    /\ UNCHANGED <<producerVars, batcherVars, destVars>>
    /\ UNCHANGED extVars

\* group.Done()
WDone(w) ==
    /\ ~panicked
    /\ wpc[w] = "drain"
    /\ Len(leftover[w]) = 0
    /\ wpc' = [wpc EXCEPT ![w] = "done"]
    /\ UNCHANGED <<parallel, apc, err, wbatch, leftover, failed, pipe, closed,
                   panicked, nflush>>
    /\ UNCHANGED <<producerVars, batcherVars, destVars>>
    /\ UNCHANGED extVars

\* group.Wait(); return
AcceptFromReturn ==
    /\ ~panicked
    /\ apc = "wait"
    /\ \A w \in 1..parallel : wpc[w] = "done"
    /\ apc' = "returned"
    /\ UNCHANGED <<parallel, err, wpc, wbatch, leftover, failed, pipe, closed,
                   panicked, nflush>>
    /\ UNCHANGED <<producerVars, batcherVars, destVars>>
    /\ UNCHANGED extVars

Next ==
    \/ SrcPut
    \/ SrcEOF
    \/ SrcClose
    \/ ChanSend
    \/ \E w \in Workers : WRecv(w)
    \/ \E w \in Workers : WBulk(w)
    \/ \E w \in Workers : WCheck(w)
    \/ \E w \in Workers : WDrain(w)
    \/ \E w \in Workers : WDone(w)
    \/ AcceptFromReturn

Spec == Init /\ [][Next]_vars

(***************************************************************************)
(* The same program under fair scheduling: a goroutine that can take a     *)
(* step is not passed over forever.  The producer goroutine, each worker   *)
(* goroutine and the goroutine in group.Wait are scheduled separately.     *)
(***************************************************************************)
ProducerStep == SrcPut \/ SrcEOF \/ SrcClose \/ ChanSend

WorkerStep(w) == WRecv(w) \/ WBulk(w) \/ WCheck(w) \/ WDrain(w) \/ WDone(w)

Fairness ==
    /\ WF_vars(ProducerStep)
    /\ \A w \in Workers : WF_vars(WorkerStep(w))
    /\ WF_vars(AcceptFromReturn)

FairSpec == Spec /\ Fairness

(***************************************************************************)
(* A destination that answers every request and overloads the first        *)
(* record of the source, if there is one, on every attempt; under the same *)
(* fair scheduling.                                                        *)
(***************************************************************************)
StallInit ==
    /\ InitCommon
    /\ EsOff /\ MetaOff /\ CopyOff
    /\ stuck = {Key(Rec(1))}   \* the key of StuckRec
    /\ FileOff
    /\ overloads = OverloadBudget
    /\ hards = 0
    /\ apc = "wait"
    /\ input \in {Source(n) : n \in 0..MaxRecs}
    /\ pos = 1
    /\ ppc = "loop"
    /\ size \in 1..MaxSize
    /\ parallel \in 1..MaxParallel
    /\ wpc = [w \in Workers |-> IF w <= parallel THEN "recv" ELSE "idle"]
    /\ rejected \in SUBSET {Key(Rec(2))}
    /\ \E pre \in SUBSET ({Key(Rec(2))} \ rejected) : docs = DocsOf(pre)

StallSpec == StallInit /\ [][Next]_vars /\ Fairness

\* a transfer of up to MaxRecs + 1 records to a destination that is
\* healthy, or overloaded for as long as the transfer runs: it answers
\* every record with overload
LoadInit ==
    /\ InitCommon
    /\ EsOff /\ MetaOff /\ CopyOff
    /\ stuck \in {{}, AllKeys}
    /\ FileOff
    /\ overloads = 0
    /\ hards = 0
    /\ apc = "wait"
    /\ input \in {Source(n) : n \in 0..(MaxRecs + 1)}
    /\ pos = 1
    /\ ppc = "loop"
    /\ size \in 1..MaxSize
    /\ parallel \in 1..MaxParallel
    /\ wpc = [w \in Workers |-> IF w <= parallel THEN "recv" ELSE "idle"]
    /\ rejected = {}
    /\ docs = DocsOf({})

LoadSpec == LoadInit /\ [][Next]_vars

(***************************************************************************)
(* The Batcher driven on its own: any sequence of Put and Flush calls on   *)
(* a Batcher of any size >= 0 (0 is the size of a zero-value Batcher),     *)
(* with a consumer receiving from the channel.                             *)
(***************************************************************************)
BatcherInit ==
    /\ InitCommon
    /\ DestBudgets
    /\ EsOff /\ MetaOff /\ CopyOff
    /\ stuck = {}
    /\ FileOff
    /\ apc = "wait"
    /\ input = <<>>
    /\ pos = 1
    /\ ppc = "unit"
    /\ size \in 0..MaxSize
    /\ parallel = 0
    /\ wpc = [w \in Workers |-> "idle"]
    /\ rejected = {}
    /\ docs = DocsOf({})

UnitPut ==
    /\ ppc = "unit"
    /\ Len(putLog) < MaxPuts
    /\ \E b \in {Rec(1), Rec(2)} : Put(b)
    /\ UNCHANGED <<pipe, closed, panicked, nflush>>
    /\ UNCHANGED <<producerVars, workerVars, destVars>>
    /\ UNCHANGED extVars

UnitFlush ==
    /\ ppc = "unit"
    /\ nflush < MaxFlushes
    /\ Flush
    /\ nflush' = nflush + 1
    /\ UNCHANGED <<pipe, closed, panicked>>
    /\ UNCHANGED <<producerVars, workerVars, destVars>>
    /\ UNCHANGED extVars

UnitRecv ==
    /\ ppc = "unit"
    /\ pipe # <<>>
    /\ pipe' = Tail(pipe)
    /\ UNCHANGED <<closed, panicked, nflush>>
    /\ UNCHANGED <<producerVars, batcherVars, workerVars, destVars>>
    /\ UNCHANGED extVars

BatcherNext == UnitPut \/ UnitFlush \/ ChanSend \/ UnitRecv

BatcherSpec == BatcherInit /\ [][BatcherNext]_vars

(***************************************************************************)
(* An export: either source streaming to a FileSink.  The source index     *)
(* holds up to MaxRecs + 1 documents in the collections of Types; the      *)
(* remote source may fail a read.                                          *)
(***************************************************************************)
ExtractInit ==
    /\ InitCommon
    /\ DestBudgets
    /\ MetaOff /\ CopyOff
    /\ stuck = {}
    /\ FileOff
    /\ apc = "range"
    /\ input \in {Source(n) : n \in 0..(MaxRecs + 1)}
    /\ pos = 1
    /\ size \in 1..MaxSize
    /\ parallel = 0
    /\ wpc = [w \in Workers |-> "idle"]
    /\ rejected = {}
    /\ docs = DocsOf({})
    /\ cursor = 0
    /\ hits = <<>>
    /\ nextErrs = {}
    /\ tix = 0
    /\ \/ /\ ppc = "loop"
          /\ types = <<>>
          /\ window = 0
          /\ readErrs = 0
       \/ /\ ppc = "range"
          /\ types \in Perms(SeqSet(Types))
          /\ window \in 1..MaxWindow
          /\ readErrs \in 0..ReadErrBudget

ExtractNext ==
    \/ SrcPut
    \/ SrcEOF
    \/ SrcClose
    \/ EsNewScroll
    \/ EsNext
    \/ EsPut
    \/ EsFlush
    \/ EsRangeEnd
    \/ EsClose
    \/ ChanSend
    \/ FileRecv
    \/ FileAcceptReturn

ExtractSpec == ExtractInit /\ [][ExtractNext]_vars

\* the characters an _id is made of here, the quote among them
IdTexts == {<<"1">>, <<"2">>, <<QUOTE>>}

\* the records a file is written from: no text holds a newline
FileRecs ==
    {[Id |-> i, Type |-> <<t>>, Doc |-> <<"d">>] :
        i \in IdTexts, t \in SeqSet(Types)}

\* a file read by FileSource and written again by FileSink: the file is
\* what Store wrote for up to MaxRecs records, as it is or without the
\* newline that ends its last line
FileInit ==
    /\ InitCommon
    /\ DestBudgets
    /\ EsOff /\ MetaOff /\ CopyOff
    /\ stuck = {}
    /\ input \in UNION {[1..n -> FileRecs] : n \in 0..MaxRecs}
    /\ file \in {StoreAll(input)}
                  \cup {SubSeq(StoreAll(input), 1, Len(StoreAll(input)) - 1)}
    /\ rest = file
    /\ pos = 1
    /\ ppc = "parse"
    /\ apc = "range"
    /\ size \in 1..MaxSize
    /\ parallel = 0
    /\ wpc = [w \in Workers |-> "idle"]
    /\ rejected = {}
    /\ docs = DocsOf({})

FileNext ==
    \/ FsPut
    \/ FsEOF
    \/ FsPanic
    \/ FsUnwind
    \/ SrcClose
    \/ ChanSend
    \/ FileRecv
    \/ FileAcceptReturn

FileSpec == FileInit /\ [][FileNext]_vars

(***************************************************************************)
(* Copy between two EsConn: GetIndex on the source, DeleteIndex on the     *)
(* sink when forced, PutIndex on the sink, then StreamTo started as a      *)
(* goroutine and AcceptFrom called.                                        *)
(***************************************************************************)
\* where Copy goes after a GetIndex that succeeded
AfterGetIndexAlwaysDeletes(f) == "delete"

AfterGetIndex(f) == IF f THEN "delete" ELSE "put"

\* where Copy goes after PutIndex
AfterPutIndexIgnoresError(fails) == "start"

AfterPutIndex(fails) == IF fails THEN "done" ELSE "start"

\* index, err := src.GetIndex(); if err != nil { return err }
CopyGetIndex ==
    /\ ~panicked
    /\ cpc = "get"
    /\ calls' = Append(calls, "GetIndex")
    /\ \/ /\ \E k \in RangeLast(smeta) :
                /\ types' \in TypesOf(Lookup(smeta, k))
                /\ index' = GetIndexBlob(smeta, k)
          /\ cpc' = AfterGetIndex(force)
          /\ UNCHANGED <<readErrs, cerr>>
       \/ /\ readErrs > 0
          /\ readErrs' = readErrs - 1
          /\ cerr' = "error"
          /\ cpc' = "done"
          /\ UNCHANGED <<types, index>>
    /\ UNCHANGED <<tix, window, cursor, hits, nextErrs, force, smeta,
                   dmeta, repls, shards>>
    /\ UNCHANGED <<producerVars, batcherVars, workerVars, destVars>>
    /\ UNCHANGED <<pipe, closed, panicked, nflush, closes, sink, stuck, file,
                   rest, reads>>

\* if p.force { sink.DeleteIndex() }: the result is not looked at
CopyDeleteIndex ==
    /\ ~panicked
    /\ cpc = "delete"
    /\ calls' = Append(calls, "DeleteIndex")
    /\ cpc' = "put"
    /\ \/ /\ docs' = DocsOf({})
          /\ UNCHANGED hards
       \/ /\ hards > 0
          /\ hards' = hards - 1
          /\ UNCHANGED docs
    /\ UNCHANGED <<force, cerr, rejected, overloads, hist>>
    /\ UNCHANGED <<producerVars, batcherVars, workerVars, esVars, metaVars>>
    /\ UNCHANGED <<pipe, closed, panicked, nflush, closes, sink, stuck, file,
                   rest, reads>>

\* err = sink.PutIndex(index, p.repls, p.shards); if err != nil { return err }
CopyPutIndex ==
    /\ ~panicked
    /\ cpc = "put"
    /\ calls' = Append(calls, "PutIndex")
    /\ \/ /\ \E k \in RangeLast(index) :
                dmeta' = PutIndexBody(Lookup(index, k), repls, shards)
          /\ cpc' = AfterPutIndex(FALSE)
          /\ UNCHANGED <<hards, cerr>>
       \/ /\ hards > 0
          /\ hards' = hards - 1
          /\ cerr' = "error"
          /\ cpc' = AfterPutIndex(TRUE)
          /\ UNCHANGED dmeta
    /\ UNCHANGED <<force, smeta, index, repls, shards>>
    /\ UNCHANGED <<docs, rejected, overloads, hist>>
    /\ UNCHANGED <<producerVars, batcherVars, workerVars, esVars>>
    /\ UNCHANGED <<pipe, closed, panicked, nflush, closes, sink, stuck, file,
                   rest, reads>>

\* pipe := make(chan []Bulk, 10); go src.StreamTo(p.window, pipe)
CopyGo ==
    /\ ~panicked
    /\ cpc = "start"
    /\ calls' = Append(calls, "StreamTo")
    /\ ppc' = "range"
    /\ cpc' = "accept"
    /\ UNCHANGED <<input, pos, force, cerr>>
    /\ UNCHANGED <<batcherVars, workerVars, destVars, esVars, metaVars>>
    /\ UNCHANGED <<pipe, closed, panicked, nflush, closes, sink, stuck, file,
                   rest, reads>>

\* sink.AcceptFrom(pipe) is called: the workers are started
CopyAccept ==
    /\ ~panicked
    /\ cpc = "accept"
    /\ calls' = Append(calls, "AcceptFrom")
    /\ apc' = "wait"
    /\ wpc' = [w \in Workers |-> IF w <= parallel THEN "recv" ELSE "idle"]
    /\ cpc' = "wait"
    /\ UNCHANGED <<parallel, err, wbatch, leftover, failed, force, cerr>>
    /\ UNCHANGED <<producerVars, batcherVars, destVars, esVars, metaVars>>
    /\ UNCHANGED <<pipe, closed, panicked, nflush, closes, sink, stuck, file,
                   rest, reads>>

\* return sink.AcceptFrom(pipe)
CopyReturn ==
    /\ ~panicked
    /\ cpc = "wait"
    /\ apc = "returned"
    /\ cerr' = err
    /\ cpc' = "done"
    /\ UNCHANGED <<calls, force>>
    /\ UNCHANGED <<producerVars, batcherVars, workerVars, destVars, esVars,
                   metaVars>>
    /\ UNCHANGED <<pipe, closed, panicked, nflush, closes, sink, stuck, file,
                   rest, reads>>

\* an index document as the source serves it
SrcIndex(settings, aliases) ==
    [aliases  |-> aliases,
     mappings |-> [t \in SeqSet(Types) |-> "schema"],
     settings |-> settings,
     warmers  |-> {}]

\* settings.index objects: the two counts, with or without a uuid and a
\* creation_date
SrcSettings ==
    {[f \in {"number_of_shards", "number_of_replicas"} \cup more |->
         CASE f = "number_of_shards"   -> Itoa(sh)
           [] f = "number_of_replicas" -> Itoa(rp)
           [] f = "uuid"               -> "u1"
           [] f = "creation_date"      -> "1400000000"] :
       sh \in 1..MaxShards, rp \in 0..MaxRepls,
       more \in SUBSET {"uuid", "creation_date"}}

CopyInitCommon ==
    /\ InitCommon
    /\ overloads = 1
    /\ hards \in 0..1
    /\ stuck = {}
    /\ FileOff
    /\ cpc = "get"
    /\ calls = <<>>
    /\ cerr = "none"
    /\ force \in BOOLEAN
    /\ index = <<>>
    /\ dmeta = NoIndex
    /\ ppc = "idle"
    /\ apc = "idle"
    /\ wpc = [w \in Workers |-> "idle"]
    /\ pos = 1
    /\ types = <<>>
    /\ tix = 0
    /\ cursor = 0
    /\ hits = <<>>
    /\ nextErrs = {}
    /\ rejected = {}

\* a whole copy of an index of up to MaxRecs documents with at most one
\* worker, to a destination that may overload once and fail one request
\* as a whole
CopyInit ==
    /\ CopyInitCommon
    /\ smeta = [k \in {"idx"} |->
                   SrcIndex(CHOOSE o \in SrcSettings :
                               DOMAIN o = {"number_of_shards",
                                           "number_of_replicas"}
                               /\ o["number_of_shards"] = Itoa(1)
                               /\ o["number_of_replicas"] = Itoa(0),
                            {})]
    /\ repls = -1
    /\ shards = -1
    /\ docs = DocsOf({Key(Rec(2))})
    /\ input \in {Source(n) : n \in 0..MaxRecs}
    /\ size \in 1..MaxSize
    /\ window = 1
    /\ readErrs \in 0..ReadErrBudget
    /\ parallel \in 0..1

CopyNext ==
    \/ CopyGetIndex
    \/ CopyDeleteIndex
    \/ CopyPutIndex
    \/ CopyGo
    \/ CopyAccept
    \/ CopyReturn
    \/ EsNewScroll
    \/ EsNext
    \/ EsPut
    \/ EsFlush
    \/ EsRangeEnd
    \/ EsClose
    \/ ChanSend
    \/ \E w \in Workers : WRecv(w)
    \/ \E w \in Workers : WBulk(w)
    \/ \E w \in Workers : WCheck(w)
    \/ \E w \in Workers : WDrain(w)
    \/ \E w \in Workers : WDone(w)
    \/ AcceptFromReturn

CopySpec == CopyInit /\ [][CopyNext]_vars

\* the metadata steps of Copy alone, over every source index document and
\* every pair of overrides
MetaInit ==
    /\ CopyInitCommon
    /\ \E o \in SrcSettings : \E al \in SUBSET {"alias1"} :
          smeta = [k \in {"idx"} |-> SrcIndex(o, al)]
    /\ repls \in -1..MaxRepls
    /\ shards \in -1..MaxShards
    /\ docs \in {DocsOf({}), DocsOf({Key(Rec(2))})}
    /\ input = <<>>
    /\ size = 1
    /\ window = 1
    /\ readErrs = 0
    /\ parallel = 0

MetaNext == CopyGetIndex \/ CopyDeleteIndex \/ CopyPutIndex

MetaSpec == MetaInit /\ [][MetaNext]_vars

\* the names under which a source can answer GET /<path>: one index, or
\* two when the path is an alias or a pattern
IndexNames == {"idx", "idx2"}

\* the metadata calls on an answer holding no index, one or two, each
\* with settings of its own
KeysInit ==
    /\ CopyInitCommon
    /\ \E K \in SUBSET IndexNames :
          smeta \in [K -> {SrcIndex(o, {"alias1"}) :
                             o \in {x \in SrcSettings :
                                      DOMAIN x = StringFields}}]
    /\ repls \in -1..MaxRepls
    /\ shards \in -1..MaxShards
    /\ docs = DocsOf({})
    /\ input = <<>>
    /\ size = 1
    /\ window = 1
    /\ readErrs = 0
    /\ parallel = 0

KeysSpec == KeysInit /\ [][MetaNext]_vars

(***************************************************************************)
(* Vocabulary of the claims.                                               *)
(***************************************************************************)
\* the records sent on the channel so far
Sent == SeqSet(Flatten([i \in 1..Len(sentLog) |-> sentLog[i].batch]))

\* the outcome of r's latest submission (-1: never submitted)
LastStatus(r) == IF hist[r] = <<>> THEN -1 ELSE hist[r][Len(hist[r])]

InLeftover(r) == \E w \in Workers : r \in SeqSet(leftover[w])

\* r waits in the channel or in a worker
Held(r) ==
    \/ InLeftover(r)
    \/ \E w \in Workers : r \in SeqSet(wbatch[w])
    \/ \E i \in 1..Len(pipe) : r \in SeqSet(pipe[i])

\* accepted by the destination: created, or already there
Delivered(r) ==
    LastStatus(r) \in {StatusCreated, StatusConflict} /\ ~Held(r)

\* given up after a permanent failure status
Dropped(r) == LastStatus(r) \in PermanentStatuses /\ ~Held(r)

\* in a step: the records of the bulk request the step submitted
Submitted == {r \in AllRecs : Len(hist'[r]) = Len(hist[r]) + 1}

\* in a step: the outcome the step gave r
NewStatus(r) == hist'[r][Len(hist'[r])]

\* in a step: worker w made a bulk submission
Submits(w) ==
    wpc[w] \in {"bulk", "drain"} /\ wpc'[w] \in {"check1", "check2"}

(***************************************************************************)
(* C1.  Completion accounting: with P >= 1 workers, when AcceptFrom has    *)
(* returned, every record sent on the channel is terminal: delivered       *)
(* unless the destination rejects it permanently, and then dropped.        *)
(***************************************************************************)
C1_CompletionAccounting ==
    (apc = "returned" /\ parallel >= 1) =>
        \A r \in Sent :
            IF Key(r) \in rejected THEN Dropped(r) ELSE Delivered(r)

(***************************************************************************)
(* C2.  With P >= 2 workers, a worker whose Bulk call returned an error    *)
(* never gets past its error check (it goes on to nothing as if the write  *)
(* had succeeded), and AcceptFrom does not return.                         *)
(***************************************************************************)
C2_HardErrorAborts ==
    parallel >= 2 =>
        \A w \in Workers :
            failed[w] => wpc[w] \in {"check1", "check2"} /\ apc # "returned"

(***************************************************************************)
(* C3.  When AcceptFrom has returned, the channel is closed and empty and  *)
(* no worker holds a batch or a non-empty leftover.                        *)
(***************************************************************************)
C3_ReturnsAfterDrain ==
    apc = "returned" =>
        /\ closed
        /\ pipe = <<>>
        /\ \A w \in Workers : wbatch[w] = <<>> /\ leftover[w] = <<>>

(***************************************************************************)
(* C4.  Conflict is success: a record answered 409 is in no leftover, is   *)
(* not submitted again after that answer, and counts as delivered.         *)
(***************************************************************************)
C4_ConflictIsSuccess ==
    \A r \in AllRecs :
        /\ \A i \in 1..(Len(hist[r]) - 1) : hist[r][i] # StatusConflict
        /\ LastStatus(r) = StatusConflict => ~InLeftover(r) /\ Delivered(r)

(***************************************************************************)
(* C5.  Overload retry: in every bulk submission of a worker, each record  *)
(* answered 429 or 503 becomes part of that worker's leftover, and the     *)
(* submission contains every record of the leftover the worker had (its    *)
(* very next submission after the overload answer, with or without a new   *)
(* batch).                                                                 *)
(***************************************************************************)
C5_OverloadRetry ==
    [][\A w \in Workers :
          Submits(w) =>
              /\ \A r \in Submitted :
                     NewStatus(r) \in OverloadStatuses
                         => r \in SeqSet(leftover'[w])
              /\ \A r \in SeqSet(leftover[w]) : r \in Submitted
              /\ SeqSet(leftover'[w]) \subseteq Submitted]_vars

\* a record was answered overload, resubmitted and then created
C5_Witness ==
    \E r \in AllRecs :
        /\ Len(hist[r]) >= 2
        /\ hist[r][1] \in OverloadStatuses
        /\ LastStatus(r) = StatusCreated

(***************************************************************************)
(* C6.  Permanent failures are dropped without failing the transfer: a     *)
(* record answered with a permanent status is not submitted again, and     *)
(* AcceptFrom returns nil.                                                 *)
(***************************************************************************)
C6_PermanentDropped ==
    /\ \A r \in AllRecs :
           \A i \in 1..(Len(hist[r]) - 1) : hist[r][i] \notin PermanentStatuses
    /\ apc = "returned" => err = "nil"

C8_SizeBoundAnySize ==
    \A i \in 1..Len(sentLog) :
        /\ Len(sentLog[i].batch) <= size
        /\ sentLog[i].by = "Put" => Len(sentLog[i].batch) = size

\* C8 as amended: the same for every size >= 1
C8_SizeBound == size >= 1 => C8_SizeBoundAnySize

\* a full batch was sent by Put and a smaller one by Flush
C8_Witness ==
    /\ size >= 2
    /\ \E i, j \in 1..Len(sentLog) :
           /\ sentLog[i].by = "Put"
           /\ sentLog[j].by = "Flush"
           /\ Len(sentLog[j].batch) < size

(***************************************************************************)
(* C9.  Batcher conservation: the batches sent, concatenated in send       *)
(* order and followed by the buffer, are the records passed to Put in      *)
(* call order; the buffer is empty after each send.                        *)
(***************************************************************************)
C9_Conservation ==
    /\ [](Flatten([i \in 1..Len(sentLog) |-> sentLog[i].batch]) \o batch
              = putLog)
    /\ [][Len(sentLog') > Len(sentLog) => batch' = <<>>]_vars

\* several Puts, then a Flush that sent the rest: nothing is buffered
C9_Witness ==
    /\ Len(putLog) >= 3
    /\ Len(sentLog) >= 2
    /\ sentLog[Len(sentLog)].by = "Flush"
    /\ batch = <<>>
    /\ sending = "none"

(***************************************************************************)
(* C10.  Flush on an empty buffer changes nothing and sends nothing: no    *)
(* batch sent on the channel has length zero.                              *)
(***************************************************************************)
C10_FlushEmptyNoOp ==
    /\ [](\A i \in 1..Len(sentLog) : Len(sentLog[i].batch) > 0)
    /\ [][(nflush' = nflush + 1 /\ batch = <<>>)
             => UNCHANGED <<batch, sending, pipe, sentLog, putLog, size>>]_vars

\* two Flush calls after a single Put filled the buffer and sent it
C10_Witness ==
    /\ size = 1
    /\ Len(putLog) = 1
    /\ nflush = 2
    /\ Len(sentLog) = 1
    /\ sentLog[1].by = "Put"
    /\ sending = "none"

(***************************************************************************)
(* Claims on extraction and on Copy.                                       *)
(***************************************************************************)
\* the source is the remote one
EsSource == types # <<>>

\* the types of the records of batch i of sentLog
BatchTypes(i) == {r.Type : r \in SeqSet(sentLog[i].batch)}

\* the batches of sentLog with fewer than `size` records
Partial == {i \in 1..Len(sentLog) : Len(sentLog[i].batch) < size}

ProducerCloses ==
    ppc \in {"close", "esclose", "unwind"} /\ ppc' = "done"

\* C12.  In both StreamTo implementations the channel is closed exactly
\* once, by the producer, and only after the last Flush has sent what was
\* buffered: at the close nothing is buffered or being sent, every record
\* Put has been sent, no batch is sent afterwards, and no step of the
\* consumer closes the channel.
C12_ClosedOnceAfterFlush ==
    /\ [](closes <= 1 /\ (closed <=> closes = 1))
    /\ [](ppc = "done" => closed)
    /\ [](closed => /\ sending = "none"
                    /\ batch = <<>>
                    /\ Flatten([i \in 1..Len(sentLog) |-> sentLog[i].batch])
                          = putLog)
    /\ [][closes' # closes => ProducerCloses /\ ~closed]_vars
    /\ [][closed => sentLog' = sentLog /\ Len(pipe') <= Len(pipe)]_vars
    /\ [][(sink' # sink \/ apc' # apc) => closed' = closed]_vars

\* the remote source closed the channel after its last Flush sent a
\* partial batch, and the consumer has drained it
C12_Witness ==
    /\ EsSource
    /\ closes = 1
    /\ ~panicked
    /\ Len(sentLog) >= 2
    /\ sentLog[Len(sentLog)].by = "Flush"
    /\ apc = "returned"

\* the positions of call c in Copy's calls
CallsOf(c) == {i \in 1..Len(calls) : calls[i] = c}

\* the source's or the sink's streaming half has been started
Streaming == ppc # "idle" \/ apc # "idle"

\* C13.  Copy calls GetIndex before anything on the sink; DeleteIndex is
\* called only when force is set, and then before PutIndex; PutIndex is
\* called exactly once and has succeeded before the producer is started.
C13_CopyOrdering ==
    /\ calls # <<>> => calls[1] = "GetIndex"
    /\ Cardinality(CallsOf("GetIndex")) <= 1
    /\ \A i \in CallsOf("DeleteIndex") :
          force /\ \A j \in CallsOf("PutIndex") : i < j
    /\ \A j \in CallsOf("PutIndex") : force => CallsOf("DeleteIndex") # {}
    /\ Cardinality(CallsOf("PutIndex")) <= 1
    /\ Streaming =>
          /\ Cardinality(CallsOf("PutIndex")) = 1
          /\ \A i \in CallsOf("StreamTo") \cup CallsOf("AcceptFrom") :
                \A j \in CallsOf("PutIndex") : j < i
          /\ \E k \in DOMAIN index :
                dmeta = PutIndexBody(Lookup(index, k), repls, shards)

\* a forced copy that ran to the end
C13_Witness ==
    /\ force
    /\ calls = <<"GetIndex", "DeleteIndex", "PutIndex", "StreamTo",
                 "AcceptFrom">>
    /\ cpc = "done"
    /\ cerr = "nil"
    /\ \E r \in AllRecs : LastStatus(r) = StatusCreated

\* C14.  When GetIndex or PutIndex fails, Copy returns the error at once:
\* neither StreamTo nor AcceptFrom is started, and nothing is submitted
\* to the destination.
C14_AbortOnMetadataFailure ==
    /\ [][(cpc \in {"get", "put"} /\ cerr' = "error")
             => /\ cpc' = "done"
                /\ calls'[Len(calls')] \in {"GetIndex", "PutIndex"}]_vars
    /\ []((cpc = "done" /\ calls[Len(calls)] \in {"GetIndex", "PutIndex"})
             => /\ cerr = "error"
                /\ ~Streaming
                /\ CallsOf("StreamTo") \cup CallsOf("AcceptFrom") = {}
                /\ \A r \in AllRecs : hist[r] = <<>>
                /\ pipe = <<>>)
    /\ [](Streaming => cerr # "error" \/ "AcceptFrom" \in SeqSet(calls))

\* PutIndex failed after a forced DeleteIndex, and Copy returned
C14_Witness ==
    /\ cpc = "done"
    /\ cerr = "error"
    /\ calls = <<"GetIndex", "DeleteIndex", "PutIndex">>
    /\ ~Streaming

\* the index document the source served, and its settings.index object
Served == smeta[CHOOSE k \in DOMAIN smeta : TRUE]

\* PutIndex has sent its request
PutIndexDone == cpc = "start"

\* C15.  PutIndex writes number_of_shards = shards exactly when
\* shards >= 0 and number_of_replicas = repls exactly when repls >= 0, each
\* independently of the other; a count that is not overridden is the
\* source's.
C15_OverridesIndependent ==
    PutIndexDone =>
        /\ dmeta.settings["number_of_shards"] =
              IF shards >= 0 THEN Itoa(shards)
              ELSE Served.settings["number_of_shards"]
        /\ dmeta.settings["number_of_replicas"] =
              IF repls >= 0 THEN Itoa(repls)
              ELSE Served.settings["number_of_replicas"]

\* C16.  GetIndex followed by PutIndex without overrides sends the
\* destination the source's settings unchanged, fields the program does
\* not interpret included, and the source's mappings; only the aliases
\* differ, which are empty.
C16_MetadataRoundTrip ==
    (PutIndexDone /\ repls < 0 /\ shards < 0) =>
        /\ dmeta.settings = Served.settings
        /\ dmeta.mappings = Served.mappings
        /\ dmeta.aliases = {}

\* C17.  The channel never holds more than its capacity.  While it is
\* full no batch is sent, and a producer that has a batch to send stays
\* where it is until a consumer has received.  With no worker nothing is
\* received: the batches sent are the ones in the channel, at most
\* ChanCap of them.
C17_Backpressure ==
    /\ [](Len(pipe) <= ChanCap)
    /\ [][Len(pipe) = ChanCap
             => sentLog' = sentLog /\ Len(pipe') <= Len(pipe)]_vars
    /\ [][(Len(pipe) = ChanCap /\ sending # "none" /\ Len(pipe') = ChanCap)
             => UNCHANGED <<ppc, pos, batch, sending, putLog>>]_vars
    /\ [](parallel = 0 =>
             /\ pipe = [i \in 1..Len(sentLog) |-> sentLog[i].batch]
             /\ Len(sentLog) <= ChanCap)

\* no worker, a full channel, and the producer blocked in its next send
C17_Witness ==
    /\ parallel = 0
    /\ Len(pipe) = ChanCap
    /\ sending = "Put"
    /\ ppc = "loop"
    /\ Len(putLog) > Len(Flatten(pipe))

\* the transfer is over: channel closed, every worker out of both loops,
\* AcceptFrom returned
Terminated ==
    /\ closed
    /\ pipe = <<>>
    /\ \A w \in 1..parallel : wpc[w] = "done" /\ leftover[w] = <<>>
    /\ apc = "returned"

\* C18.  Under fair scheduling, with at least one worker, a finite source
\* and a destination that answers every request and overloads finitely
\* often, the transfer terminates: the producer closes the channel, every
\* worker drains its leftover and exits, and AcceptFrom returns.
C18_Termination ==
    (parallel >= 1 /\ [](\A w \in Workers : ~failed[w])) => <>Terminated

\* two workers finished a transfer in which the destination overloaded
C18_Witness ==
    /\ Terminated
    /\ parallel = 2
    /\ overloads < OverloadBudget
    /\ \A w \in Workers : ~failed[w]
    /\ Len(input) = MaxRecs

\* the record StallSpec's destination never accepts
StuckRec == Rec(1)

\* the source holds the record the destination never accepts
Stalled == Key(StuckRec) \in stuck /\ StuckRec \in SeqSet(input)

\* in a step: worker w submitted a bulk request holding r
SubmitsRec(w, r) ==
    /\ Submits(w)
    /\ \/ wpc[w] = "bulk" /\ r \in SeqSet(wbatch[w] \o leftover[w])
       \/ wpc[w] = "drain" /\ r \in SeqSet(leftover[w])

\* C19.  There is no attempt counter: when the destination overloads a
\* record on every attempt, AcceptFrom never returns, the record is never
\* given up (it is never delivered nor dropped: once submitted it waits
\* in a worker's leftover or is at its latest overload answer), and some
\* worker submits it again and again, forever.
C19_UnboundedRetry ==
    /\ [](Stalled =>
             /\ apc # "returned"
             /\ ~Delivered(StuckRec) /\ ~Dropped(StuckRec)
             /\ LastStatus(StuckRec) \in OverloadStatuses \cup {-1}
             /\ hist[StuckRec] # <<>> => InLeftover(StuckRec))
    /\ Stalled => []<><<\E w \in Workers : SubmitsRec(w, StuckRec)>>_vars

\* the channel is closed, and the record has been submitted more often
\* than any overload budget explains
C19_Witness ==
    /\ closed
    /\ pipe = <<>>
    /\ Len(hist[StuckRec]) = MaxHist
    /\ \A i \in 1..MaxHist : hist[StuckRec][i] \in OverloadStatuses
    /\ InLeftover(StuckRec)
    /\ apc = "wait"

\* the transfer has completed as a success
Succeeded == apc = "returned" /\ ~panicked

\* C20.  A Scroll.Next that fails on a page after the first of its
\* collection aborts the transfer: it is not taken for the empty page
\* that ends the collection, so the transfer never completes as a success
\* with only the pages read before the failure.
C20_FailedReadIsFatal ==
    (\E e \in nextErrs : e[2] > 0 /\ e[2] < Len(Coll(e[1]))) => ~Succeeded

\* GetIndex was called on an answer that does not hold exactly one index
AmbiguousServed ==
    Cardinality(DOMAIN smeta) # 1 /\ CallsOf("GetIndex") # {}

\* PutIndex was called with metadata that does not hold exactly one index
AmbiguousPut ==
    Cardinality(DOMAIN index) # 1 /\ CallsOf("PutIndex") # {}

\* C21.  Metadata with no top-level index key, or with more than one, is
\* rejected: GetIndex and PutIndex on such metadata return an error and
\* nothing is written to the destination.
C21_RejectsAmbiguousMetadata ==
    (AmbiguousServed \/ AmbiguousPut) =>
        /\ cerr = "error"
        /\ dmeta = NoIndex

\* the file is what Store wrote, to its last newline
WrittenByStore == file = StoreAll(input)

\* C22.  Reading back what Store wrote gives the record that was stored:
\* for records without a newline in Id, Type and Doc, ParseBulk on the
\* output of Store fails on no record and returns the same Id, Type and
\* Doc, so that storing the parsed record writes the same two lines.
C22_FileRoundTrip ==
    WrittenByStore =>
        /\ ppc # "fsunwind"
        /\ \A i \in 1..Len(putLog) :
              /\ putLog[i] = input[i]
              /\ StoreText(putLog[i]) = StoreText(input[i])

\* a line without the newline that ends it
Chomp(t) ==
    IF t # <<>> /\ t[Len(t)] = NL THEN SubSeq(t, 1, Len(t) - 1) ELSE t

\* a record as the pair of lines it makes in a file: the Id and Type of
\* its header line, and its body line
LinePair(b) == [Id |-> b.Id, Type |-> b.Type, body |-> Chomp(b.Doc)]

LinePairs(recs) == [i \in 1..Len(recs) |-> LinePair(recs[i])]

\* the records sent on the channel, in order
SentRecs == Flatten([i \in 1..Len(sentLog) |-> sentLog[i].batch])

\* every header line of the file parses
HeadersParse == \A i \in 1..Len(input) : IndexOf(input[i].Id, QUOTE) = 0

\* the lines of a text
LineCount(t) == Cardinality({i \in 1..Len(t) : t[i] = NL})

\* C28.  FileSource.StreamTo has sent every record pair of the file, in
\* file order, when it closes the channel, the last one also when its body
\* line has no newline; FileSink.AcceptFrom has written the records of the
\* batches it received in the order received, two lines for each.
C28_FileCompleteness ==
    /\ (HeadersParse /\ closed) => LinePairs(SentRecs) = LinePairs(input)
    /\ SentRecs = sink \o Flatten(pipe)
    /\ LineCount(StoreAll(sink)) = 2 * Len(sink)

RECURSIVE SumLen(_)
SumLen(ss) == IF ss = <<>> THEN 0 ELSE Len(Head(ss)) + SumLen(Tail(ss))

\* the records resident in the pipeline: the Batcher's buffer, the
\* channel, and every worker's batch and leftover
Resident ==
    Len(batch) + SumLen(pipe)
        + SumLen([w \in Workers |-> wbatch[w] \o leftover[w]])

\* C23.  Bounded memory: the records resident in the pipeline never
\* exceed bulkSize times a number fixed by the channel capacity and the
\* worker count (one buffer, the channel's slots, and per worker a batch
\* and a leftover of at most one batch), and no bulk submission of a
\* worker holds more than a batch and such a leftover, however many
\* batches the worker has processed.
C23_BoundedMemory ==
    /\ [](Resident <= size * (1 + ChanCap + 2 * parallel))
    /\ [][\A w \in Workers :
             Submits(w) => Cardinality(Submitted) <= 2 * size]_vars

\* C24.  Only records whose own write was answered overload are retried:
\* every record a bulk submission returns as leftover was itself answered
\* overload in that submission; a record whose own write succeeded is not
\* in the leftover, whatever the answer to another record of the same Id
\* and another Type.
C24_OnlyOverloadedRetried ==
    [][\A w \in Workers :
          (Submits(w) /\ err' = "nil") =>
              \A r \in SeqSet(leftover'[w]) :
                  /\ r \in Submitted
                  /\ NewStatus(r) \in OverloadStatuses]_vars

\* how often r occurs in a sequence of records
Occ(recs, r) == Cardinality({i \in 1..Len(recs) : recs[i] = r})

RECURSIVE SumOcc(_, _)
SumOcc(ss, r) ==
    IF ss = <<>> THEN 0 ELSE Occ(Head(ss), r) + SumOcc(Tail(ss), r)

\* the places that hold r: the Batcher's buffer, the slots of the channel,
\* each worker's batch and leftover
Copies(r) ==
    Occ(batch, r) + SumOcc(pipe, r)
        + SumOcc([w \in Workers |-> wbatch[w] \o leftover[w]], r)

\* r has been submitted and its latest answer was not overload: it was
\* written, was already there, was rejected for good, or failed with its
\* whole request
Terminal(r) == LastStatus(r) # -1 /\ LastStatus(r) \notin OverloadStatuses

\* in a step: worker w received a batch
Receives(w) == wpc[w] = "recv" /\ wpc'[w] = "bulk"

TypeIx(t) == CHOOSE i \in 1..Len(types) : types[i] = t

\* the collections opened, in the order of the calls
Opened == SelectSeq(reads, LAMBDA c : c.op = "open")

\* the records of collection t sent on the channel, in the order sent
SentOf(t) == SelectSeq(SentRecs, LAMBDA r : r.Type = t)

\* C26.  Sequential extraction: the collections are opened one by one in
\* the order of the collection list, every read is on the collection
\* opened last, no cursor is read after it returned an empty page, no
\* record of a collection is sent after a record of a later collection,
\* and the records of one collection are sent in the order its pages
\* serve them.
C26_SequentialExtraction ==
    EsSource =>
        /\ [i \in 1..Len(Opened) |-> Opened[i].coll]
              = SubSeq(types, 1, Len(Opened))
        /\ \A j \in 1..Len(reads) :
              reads[j].op = "next" =>
                  /\ j > 1
                  /\ reads[j - 1].coll = reads[j].coll
                  /\ ~(reads[j - 1].op = "next" /\ reads[j - 1].n = 0)
        /\ \A i, j \in 1..Len(SentRecs) :
              i < j => TypeIx(SentRecs[i].Type) <= TypeIx(SentRecs[j].Type)
        /\ \A t \in SeqSet(types) :
              SentOf(t) = SubSeq(Coll(t), 1, Len(SentOf(t)))

\* both collections were read to their empty page, the first in two pages
\* of one record, and all three records were sent
C26_Witness ==
    /\ EsSource
    /\ ppc = "done"
    /\ ~panicked
    /\ nextErrs = {}
    /\ Len(reads) = 7
    /\ Len(SentRecs) = 3

\* the calls that failed to open a scan
FailedOpens ==
    {i \in 1..Len(reads) : reads[i].op = "open" /\ reads[i].n = -1}

\* C27.  When the scan of a collection cannot be opened extraction stops:
\* no call on a scroll follows, no record of that collection or of a later
\* one is sent on the channel, and the transfer does not end in success.
C27_FailedOpenAborts ==
    \A i \in FailedOpens :
        /\ i = Len(reads)
        /\ \A r \in SeqSet(SentRecs) :
              TypeIx(r.Type) < TypeIx(reads[i].coll)
        /\ ~Succeeded

\* the scan of the second collection failed to open after records of the
\* first were sent, and the process is gone
C27_Witness ==
    /\ FailedOpens # {}
    /\ SentRecs # <<>>
    /\ tix = 2
    /\ closed
    /\ panicked


=============================================================================
